---- MODULE Spec2Model ----
(***************************************************************************)
(* Announcements endpoints of the High School Management System API        *)
(* (src/backend/routers/announcements.py) as a state machine.              *)
(*                                                                         *)
(* Datetimes are integer clock ticks.  A calendar day has TicksPerDay      *)
(* ticks; its last second (23:59:59) starts TicksPerSecond ticks before    *)
(* the next midnight, so the clock has sub-second resolution inside it.    *)
(* A string that the code measures and trims (the message) is a sequence   *)
(* of runs <<character, count>>; date strings, ids and usernames are       *)
(* strings that the code parses or looks up.  An Optional argument is      *)
(* None (<<>>) or Some(v) (<<v>>).  A MongoDB document is a function from  *)
(* field names to values, so a field can be absent.                        *)
(***************************************************************************)
EXTENDS Integers, Sequences, FiniteSets, TLC

VARIABLES
  announcements,   \* announcements_collection: ObjectId -> document
  clock,           \* datetime.utcnow(), in ticks
  nextOid,         \* the next ObjectId insert_one hands out
  call,            \* the request just handled and its response, until returned
  upd,             \* an update request running step by step (SpecConc)
  del              \* a delete request running beside it (SpecConc)

vars == <<announcements, clock, nextOid, call, upd, del>>

----------------------------------------------------------------------------
(* Bounds of the model *)

MaxOid == 2          \* ObjectIds the store hands out
MaxDay == 1          \* calendar days 0..MaxDay can be named in a date string
TicksPerDay == 3     \* clock ticks in one calendar day
TicksPerSecond == 2  \* clock ticks in one second

(* Program constant *)
MAX_MESSAGE_LENGTH == 500

Days == 0 .. MaxDay
Oids == 1 .. MaxOid
\* the clock stops at 23:59:59 of the last day a date string can name
LastTick == (MaxDay + 1) * TicksPerDay - TicksPerSecond

----------------------------------------------------------------------------
(* Optional values *)

None == <<>>
Some(v) == <<v>>

----------------------------------------------------------------------------
(* Strings as runs of characters *)

Whitespace == {" "}

RECURSIVE len(_)
len(s) == IF s = <<>> THEN 0 ELSE Head(s)[2] + len(Tail(s))

RECURSIVE lstrip(_)
lstrip(s) ==
  IF s = <<>> THEN <<>>
  ELSE IF Head(s)[1] \in Whitespace \/ Head(s)[2] = 0 THEN lstrip(Tail(s))
  ELSE s

RECURSIVE rstrip(_)
rstrip(s) ==
  IF s = <<>> THEN <<>>
  ELSE IF s[Len(s)][1] \in Whitespace \/ s[Len(s)][2] = 0
       THEN rstrip(SubSeq(s, 1, Len(s) - 1))
  ELSE s

strip(s) == rstrip(lstrip(s))

----------------------------------------------------------------------------
(* Inputs *)

EmptyMsg == <<>>
BlankMsg == << <<" ", 2>> >>
ShortMsg == << <<" ", 1>>, <<"a", 1>>, <<" ", 1>> >>
FullMsg == << <<"a", MAX_MESSAGE_LENGTH>> >>
PaddedMsg == << <<" ", 1>>, <<"a", MAX_MESSAGE_LENGTH - 1>>, <<" ", 1>> >>
LongMsg == << <<"a", MAX_MESSAGE_LENGTH + 1>> >>

Messages == {EmptyMsg, BlankMsg, ShortMsg, FullMsg, PaddedMsg, LongMsg}

DateStrings == {ToString(d) : d \in Days} \cup {"", "tomorrow"}

IdStrings == {ToString(o) : o \in Oids} \cup {"not-an-objectid"}

teachers_collection == {[_id |-> "mrodriguez"]}

Usernames == {None, Some(""), Some("intruder"), Some("mrodriguez")}

Opt(S) == {None} \cup {Some(v) : v \in S}

----------------------------------------------------------------------------
(* Responses *)

Resp(status, coll, body) == [status |-> status, coll |-> coll, body |-> body]

HTTPException(status, coll) == Resp(status, coll, None)

----------------------------------------------------------------------------
(* The store *)

find_one(coll, oid) == IF oid \in DOMAIN coll THEN Some(coll[oid]) ELSE None

insert_one(coll, doc) == coll @@ (doc._id :> doc)

update_one_unset(coll, oid, field) ==
  IF oid \in DOMAIN coll
  THEN [coll EXCEPT ![oid] = [k \in DOMAIN coll[oid] \ {field} |-> coll[oid][k]]]
  ELSE coll

\* variant: $set with upsert, which inserts the document when none matches
update_one_set_upsert(coll, oid, fields) ==
  IF oid \in DOMAIN coll
  THEN [coll EXCEPT ![oid] = fields @@ coll[oid]]
  ELSE coll @@ (oid :> (fields @@ [_id |-> oid]))

update_one_set(coll, oid, fields) ==
  IF oid \in DOMAIN coll
  THEN [coll EXCEPT ![oid] = fields @@ coll[oid]]
  ELSE coll

delete_one(coll, oid) == [o \in DOMAIN coll \ {oid} |-> coll[o]]

IsObjectId(s) == \E o \in Oids : ToString(o) = s

ObjectId(s) == CHOOSE o \in Oids : ToString(o) = s

----------------------------------------------------------------------------
(* Helpers of the module *)

verify_teacher(teacher_username) ==
  IF teacher_username = None \/ teacher_username[1] = "" THEN [status |-> 401]
  ELSE IF ~ \E t \in teachers_collection : t._id = teacher_username[1]
       THEN [status |-> 401]
  ELSE [status |-> 200,
        teacher |-> CHOOSE t \in teachers_collection : t._id = teacher_username[1]]

\* variant: the length limit applied to the trimmed message
validate_message_trimmed(message) ==
  IF len(message) = 0 \/ len(strip(message)) = 0 THEN 400
  ELSE IF len(strip(message)) > MAX_MESSAGE_LENGTH THEN 400
  ELSE 200

validate_message(message) ==
  IF len(message) = 0 \/ len(strip(message)) = 0 THEN 400
  ELSE IF len(message) > MAX_MESSAGE_LENGTH THEN 400
  ELSE 200

IsIsoDate(date_str) == \E d \in Days : ToString(d) = date_str

fromisoformat(date_str) == CHOOSE d \in Days : ToString(d) = date_str

EndOfDay(d) == d * TicksPerDay + (TicksPerDay - TicksPerSecond)

normalize_date_to_end_of_day(date_str) ==
  IF IsIsoDate(date_str)
  THEN [status |-> 200, value |-> EndOfDay(fromisoformat(date_str))]
  ELSE [status |-> 400]

serialize_announcement(announcement) ==
  IF "_id" \in DOMAIN announcement
  THEN ("id" :> ToString(announcement._id))
       @@ [k \in DOMAIN announcement \ {"_id"} |-> announcement[k]]
  ELSE announcement

----------------------------------------------------------------------------
(* GET /announcements *)

\* variant: $gt instead of $gte on expiration_date
IsActive_after_now(doc, now) ==
  \/ /\ "start_date" \notin DOMAIN doc
     /\ doc.expiration_date > now
  \/ /\ "start_date" \in DOMAIN doc
     /\ doc.start_date <= now
     /\ doc.expiration_date > now

IsActive(doc, now) ==
  \/ /\ "start_date" \notin DOMAIN doc
     /\ doc.expiration_date >= now
  \/ /\ "start_date" \in DOMAIN doc
     /\ doc.start_date <= now
     /\ doc.expiration_date >= now

find(coll, active_only, now) ==
  {coll[o] : o \in {p \in DOMAIN coll : active_only => IsActive(coll[p], now)}}

\* sort("created_at", -1): any order of the documents with created_at
\* descending; documents with equal created_at come in either order.
SortedDescending(docs) ==
  {s \in [1 .. Cardinality(docs) -> docs] :
     /\ \A i, j \in DOMAIN s : i # j => s[i] # s[j]
     /\ \A i, j \in DOMAIN s : i < j => s[i].created_at >= s[j].created_at}

get_announcements(coll, now, active_only) ==
  {Resp(200, coll, [i \in DOMAIN s |-> serialize_announcement(s[i])]) :
     s \in SortedDescending(find(coll, active_only, now))}

----------------------------------------------------------------------------
(* GET /announcements/{announcement_id} *)

\* variant: a malformed id reported as not found
get_announcement_malformed_404(coll, announcement_id) ==
  IF ~IsObjectId(announcement_id) THEN HTTPException(404, coll)
  ELSE LET announcement == find_one(coll, ObjectId(announcement_id)) IN
    IF announcement = None THEN HTTPException(404, coll)
    ELSE Resp(200, coll, Some(serialize_announcement(announcement[1])))

get_announcement(coll, announcement_id) ==
  IF ~IsObjectId(announcement_id) THEN HTTPException(400, coll)
  ELSE LET announcement == find_one(coll, ObjectId(announcement_id)) IN
    IF announcement = None THEN HTTPException(404, coll)
    ELSE Resp(200, coll, Some(serialize_announcement(announcement[1])))

----------------------------------------------------------------------------
(* POST /announcements *)

\* variant: <= instead of <
ExpirationInPast_or_now(exp_date, now) == exp_date <= now

ExpirationInPast(exp_date, now) == exp_date < now

create_announcement(coll, now, oid, message, expiration_date, start_date, teacher_username) ==
  LET auth == verify_teacher(teacher_username)
      exp_date == normalize_date_to_end_of_day(expiration_date)
      has_start == start_date # None /\ start_date[1] # ""
      start == normalize_date_to_end_of_day(start_date[1])
      announcement ==
        IF has_start
        THEN [message |-> message, expiration_date |-> exp_date.value,
              created_at |-> now, created_by |-> auth.teacher._id,
              start_date |-> start.value]
        ELSE [message |-> message, expiration_date |-> exp_date.value,
              created_at |-> now, created_by |-> auth.teacher._id]
      stored == ("_id" :> oid) @@ announcement
  IN
  IF auth.status # 200 THEN HTTPException(401, coll)
  ELSE IF validate_message(message) # 200 THEN HTTPException(400, coll)
  ELSE IF exp_date.status # 200 THEN HTTPException(400, coll)
  ELSE IF ExpirationInPast(exp_date.value, now) THEN HTTPException(400, coll)
  ELSE IF has_start /\ start.status # 200 THEN HTTPException(400, coll)
  ELSE IF has_start /\ start.value > exp_date.value THEN HTTPException(400, coll)
  ELSE Resp(200, insert_one(coll, stored), Some(serialize_announcement(stored)))

----------------------------------------------------------------------------
(* PUT /announcements/{announcement_id} *)

\* Lines 222-247 between the existence read and the first write: the fields to
\* $set, whether start_date is to be $unset, or the HTTPException raised.
UpdatePlan(announcement, now, message, expiration_date, start_date) ==
  LET exp_date == normalize_date_to_end_of_day(expiration_date[1])
      start == normalize_date_to_end_of_day(start_date[1])
      f_message == IF message # None THEN [message |-> message[1]] ELSE <<>>
      f_expiration ==
        IF expiration_date # None
        THEN [expiration_date |-> exp_date.value] ELSE <<>>
      exp == IF expiration_date # None
             THEN exp_date.value ELSE announcement.expiration_date
      f_start ==
        IF start_date # None /\ start_date[1] # ""
        THEN [start_date |-> start.value] ELSE <<>>
  IN
  IF expiration_date # None /\ exp_date.status # 200 THEN [status |-> 400]
  ELSE IF expiration_date # None /\ ExpirationInPast(exp_date.value, now)
       THEN [status |-> 400]
  ELSE IF start_date # None /\ start_date[1] # "" /\ start.status # 200
       THEN [status |-> 400]
  ELSE IF start_date # None /\ start_date[1] # "" /\ start.value > exp
       THEN [status |-> 400]
  ELSE [status |-> 200,
        unset |-> (start_date # None /\ start_date[1] = ""),
        update_fields |-> f_start @@ f_expiration @@ f_message]

\* Lines 256-258: the final read and serialize_announcement(updated); with
\* updated = None the membership test raises TypeError, which line 262 turns
\* into a 400.
UpdateResult(coll, oid) ==
  LET updated == find_one(coll, oid) IN
  IF updated = None THEN HTTPException(400, coll)
  ELSE Resp(200, coll, Some(serialize_announcement(updated[1])))

ApplyUnset(coll, oid, plan) ==
  IF plan.unset THEN update_one_unset(coll, oid, "start_date") ELSE coll

\* variant: the $set skipped once start_date has been removed
ApplySet_skipped_after_unset(coll, oid, plan) ==
  IF plan.update_fields # <<>> /\ ~plan.unset
  THEN update_one_set(coll, oid, plan.update_fields) ELSE coll

ApplySet(coll, oid, plan) ==
  IF plan.update_fields # <<>>
  THEN update_one_set(coll, oid, plan.update_fields) ELSE coll

\* Lines 202-247: everything update does before its first write: the
\* credential check, the message check, the existence read and the plan.
UpdateBegin(coll, now, announcement_id, message, expiration_date, start_date, teacher_username) ==
  LET auth == verify_teacher(teacher_username)
      oid == ObjectId(announcement_id)
      announcement == find_one(coll, oid)
      plan == UpdatePlan(announcement[1], now, message, expiration_date,
                         start_date)
  IN
  IF auth.status # 200 THEN [status |-> 401]
  ELSE IF message # None /\ validate_message(message[1]) # 200
       THEN [status |-> 400]
  ELSE IF ~IsObjectId(announcement_id) THEN [status |-> 400]
  ELSE IF announcement = None THEN [status |-> 404]
  ELSE plan

\* variant: start_date removed before the remaining arguments are validated
update_announcement_unset_first(coll, now, announcement_id, message, expiration_date, start_date, teacher_username) ==
  LET plan == UpdateBegin(coll, now, announcement_id, message,
                          expiration_date, start_date, teacher_username)
      oid == ObjectId(announcement_id)
      cleared ==
        IF start_date = Some("") /\ plan.status \notin {401, 404}
             /\ IsObjectId(announcement_id)
        THEN update_one_unset(coll, oid, "start_date") ELSE coll
  IN
  IF plan.status # 200 THEN HTTPException(plan.status, cleared)
  ELSE UpdateResult(ApplySet(ApplyUnset(coll, oid, plan), oid, plan), oid)

update_announcement(coll, now, announcement_id, message, expiration_date, start_date, teacher_username) ==
  LET plan == UpdateBegin(coll, now, announcement_id, message,
                          expiration_date, start_date, teacher_username)
      oid == ObjectId(announcement_id)
  IN
  IF plan.status # 200 THEN HTTPException(plan.status, coll)
  ELSE UpdateResult(ApplySet(ApplyUnset(coll, oid, plan), oid, plan), oid)

----------------------------------------------------------------------------
(* DELETE /announcements/{announcement_id} *)

\* variant: the id looked up before the credential is checked
delete_announcement_id_first(coll, announcement_id, teacher_username) ==
  LET auth == verify_teacher(teacher_username)
      oid == ObjectId(announcement_id)
  IN
  IF ~IsObjectId(announcement_id) THEN HTTPException(400, coll)
  ELSE IF oid \notin DOMAIN coll THEN HTTPException(404, coll)
  ELSE IF auth.status # 200 THEN HTTPException(401, coll)
  ELSE Resp(200, delete_one(coll, oid), Some([message |-> "deleted"]))

delete_announcement(coll, announcement_id, teacher_username) ==
  LET auth == verify_teacher(teacher_username)
      oid == ObjectId(announcement_id)
  IN
  IF auth.status # 200 THEN HTTPException(401, coll)
  ELSE IF ~IsObjectId(announcement_id) THEN HTTPException(400, coll)
  ELSE IF oid \notin DOMAIN coll THEN HTTPException(404, coll)
  ELSE Resp(200, delete_one(coll, oid), Some([message |-> "deleted"]))

----------------------------------------------------------------------------
(* The service, one request at a time *)

Call(op, id, message, expiration_date, start_date, teacher_username, active_only, r) ==
  [op |-> op, announcement_id |-> id, message |-> message,
   expiration_date |-> expiration_date, start_date |-> start_date,
   teacher_username |-> teacher_username, active_only |-> active_only,
   now |-> clock, pre |-> announcements,
   status |-> r.status, body |-> r.body]

Init ==
  /\ announcements = <<>>
  /\ clock = 0
  /\ nextOid = 1
  /\ call = None
  /\ upd = None
  /\ del = None

Tick ==
  /\ call = None
  /\ clock < LastTick
  /\ clock' = clock + 1
  /\ UNCHANGED <<announcements, nextOid, call, upd, del>>

List ==
  /\ call = None
  /\ \E active_only \in BOOLEAN :
       \E r \in get_announcements(announcements, clock, active_only) :
         call' = Call("list", None, None, None, None, None, active_only, r)
  /\ UNCHANGED <<announcements, clock, nextOid, upd, del>>

Get ==
  /\ call = None
  /\ \E id \in IdStrings :
       call' = Call("get", id, None, None, None, None, FALSE,
                    get_announcement(announcements, id))
  /\ UNCHANGED <<announcements, clock, nextOid, upd, del>>

Create ==
  /\ call = None
  /\ nextOid <= MaxOid
  /\ \E message \in Messages, expiration_date \in DateStrings,
        start_date \in Opt(DateStrings), teacher_username \in Usernames :
       LET r == create_announcement(announcements, clock, nextOid, message,
                                    expiration_date, start_date,
                                    teacher_username)
       IN /\ announcements' = r.coll
          /\ nextOid' = IF r.status = 200 THEN nextOid + 1 ELSE nextOid
          /\ call' = Call("create", None, Some(message), Some(expiration_date),
                          start_date, teacher_username, FALSE, r)
  /\ UNCHANGED <<clock, upd, del>>

Update ==
  /\ call = None
  /\ \E id \in IdStrings, message \in Opt(Messages),
        expiration_date \in Opt(DateStrings), start_date \in Opt(DateStrings),
        teacher_username \in Usernames :
       LET r == update_announcement(announcements, clock, id, message,
                                    expiration_date, start_date,
                                    teacher_username)
       IN /\ announcements' = r.coll
          /\ call' = Call("update", id, message, expiration_date, start_date,
                          teacher_username, FALSE, r)
  /\ UNCHANGED <<clock, nextOid, upd, del>>

Delete ==
  /\ call = None
  /\ \E id \in IdStrings, teacher_username \in Usernames :
       LET r == delete_announcement(announcements, id, teacher_username)
       IN /\ announcements' = r.coll
          /\ call' = Call("delete", id, None, None, None, teacher_username,
                          FALSE, r)
  /\ UNCHANGED <<clock, nextOid, upd, del>>

Return ==
  /\ call # None
  /\ call' = None
  /\ UNCHANGED <<announcements, clock, nextOid, upd, del>>

Next == Tick \/ List \/ Get \/ Create \/ Update \/ Delete \/ Return

Spec == Init /\ [][Next]_vars

----------------------------------------------------------------------------
(* One update and one delete of the same announcement, step by step: every
   store call of update_announcement is a step of its own, and the delete's
   single store call may fall between any two of them. *)

\* the first ObjectId the store hands out
TheOid == CHOOSE o \in Oids : \A p \in Oids : o <= p

TheTeacher == Some("mrodriguez")

\* The record both requests name, as create_announcement stored it at tick 0.
CreatedAtStart(start_date) ==
  create_announcement(<<>>, 0, TheOid, ShortMsg, ToString(MaxDay), start_date,
                      TheTeacher).coll

InitConc ==
  /\ clock = 0
  /\ nextOid = TheOid + 1
  /\ call = None
  /\ \E start_date \in {None} \cup {Some(ToString(d)) : d \in Days} :
       announcements = CreatedAtStart(start_date)
  /\ \E message \in Opt({FullMsg, PaddedMsg}),
        expiration_date \in Opt(DateStrings),
        start_date \in Opt(DateStrings) :
       upd = [pc |-> "begin", message |-> message,
              expiration_date |-> expiration_date, start_date |-> start_date,
              plan |-> None, status |-> 0, body |-> None,
              wrote_after_delete |-> FALSE, final_read |-> "none"]
  /\ del = [pc |-> "begin", status |-> 0]

Deleted == del.pc = "done"

AfterBegin(plan) ==
  IF plan.status # 200 THEN "done"
  ELSE IF plan.unset THEN "unset"
  ELSE IF plan.update_fields # <<>> THEN "set"
  ELSE "read"

\* lines 212-247: credential and message checks, the existence read, the plan
UpdBegin ==
  /\ upd.pc = "begin"
  /\ LET plan == UpdateBegin(announcements, clock, ToString(TheOid),
                             upd.message, upd.expiration_date, upd.start_date,
                             TheTeacher)
     IN upd' = [upd EXCEPT !.pc = AfterBegin(plan), !.plan = plan,
                           !.status = IF plan.status # 200
                                      THEN plan.status ELSE 0]
  /\ UNCHANGED <<announcements, clock, nextOid, call, del>>

\* lines 237-240
UpdUnset ==
  /\ upd.pc = "unset"
  /\ announcements' = ApplyUnset(announcements, TheOid, upd.plan)
  /\ upd' = [upd EXCEPT
               !.pc = IF upd.plan.update_fields # <<>> THEN "set" ELSE "read",
               !.wrote_after_delete = @ \/ Deleted]
  /\ UNCHANGED <<clock, nextOid, call, del>>

\* lines 249-253
UpdSet ==
  /\ upd.pc = "set"
  /\ announcements' = ApplySet(announcements, TheOid, upd.plan)
  /\ upd' = [upd EXCEPT !.pc = "read", !.wrote_after_delete = @ \/ Deleted]
  /\ UNCHANGED <<clock, nextOid, call, del>>

\* lines 256-264
UpdFinalRead ==
  /\ upd.pc = "read"
  /\ LET r == UpdateResult(announcements, TheOid)
     IN upd' = [upd EXCEPT !.pc = "done", !.status = r.status,
                           !.body = r.body,
                           !.final_read = IF Deleted THEN "after"
                                          ELSE "before"]
  /\ UNCHANGED <<announcements, clock, nextOid, call, del>>

\* lines 268-290
DelRun ==
  /\ del.pc = "begin"
  /\ LET r == delete_announcement(announcements, ToString(TheOid), TheTeacher)
     IN /\ announcements' = r.coll
        /\ del' = [pc |-> "done", status |-> r.status]
  /\ UNCHANGED <<clock, nextOid, call, upd>>

NextConc == UpdBegin \/ UpdUnset \/ UpdSet \/ UpdFinalRead \/ DelRun

SpecConc == InitConc /\ [][NextConc]_vars

----------------------------------------------------------------------------
(* Vocabulary of the properties *)

Mutating == {"create", "update", "delete"}

CredentialOk(u) ==
  /\ u # None
  /\ u[1] # ""
  /\ \E t \in teachers_collection : t._id = u[1]

Malformed(id) == \A o \in Oids : ToString(o) # id

Matches(coll, id) == \E o \in DOMAIN coll : ToString(o) = id

Target(id) == CHOOSE o \in Oids : ToString(o) = id

Parses(date_str) == \E d \in Days : ToString(d) = date_str

\* 23:59:59 of the day a date string names
Normalized(date_str) ==
  LET d == CHOOSE e \in Days : ToString(e) = date_str
  IN (d + 1) * TicksPerDay - TicksPerSecond

Today(now) == now \div TicksPerDay

TrimmedLength(m) == len(strip(m))

MessageOk(m) == TrimmedLength(m) >= 1 /\ len(m) <= MAX_MESSAGE_LENGTH

HasStart(doc) == "start_date" \in DOMAIN doc

----------------------------------------------------------------------------
\* C1: in every reachable state every stored announcement that has a
\* start_date has start_date <= expiration_date.
C1_StartNotAfterExpiration ==
  \A o \in DOMAIN announcements :
    HasStart(announcements[o]) =>
      announcements[o].start_date <= announcements[o].expiration_date

\* C2: a mutating call whose teacher_username is missing, empty or unknown to
\* the teachers store answers 401 and leaves the store as it was, whatever the
\* other arguments; a mutating call that changed the store had a valid
\* credential.
C2_CredentialGate ==
  (call # None /\ call.op \in Mutating) =>
    /\ ~CredentialOk(call.teacher_username) =>
         (call.status = 401 /\ announcements = call.pre)
    /\ announcements # call.pre => CredentialOk(call.teacher_username)

C2_Witness ==
  /\ call # None
  /\ call.op = "update"
  /\ call.teacher_username = Some("intruder")
  /\ call.message = Some(EmptyMsg)
  /\ Matches(call.pre, call.announcement_id)
  /\ call.status = 401

\* C3: list(active_only=true) returns exactly the records with (no
\* start_date and expiration_date >= now) or (start_date <= now <=
\* expiration_date), list(active_only=false) returns every record, each once
\* and as stored, ordered by created_at descending.
Listed(doc, active_only, now) ==
  active_only =>
    \/ ~HasStart(doc) /\ doc.expiration_date >= now
    \/ HasStart(doc) /\ doc.start_date <= now /\ now <= doc.expiration_date

C3_ListActive ==
  (call # None /\ call.op = "list") =>
    LET body == call.body
        want == {o \in DOMAIN call.pre :
                   Listed(call.pre[o], call.active_only, call.now)}
    IN /\ {body[i].id : i \in DOMAIN body} = {ToString(o) : o \in want}
       /\ Len(body) = Cardinality(want)
       /\ \A i \in DOMAIN body :
            \E o \in want :
              /\ body[i].id = ToString(o)
              /\ \A k \in DOMAIN call.pre[o] \ {"_id"} :
                   k \in DOMAIN body[i] /\ body[i][k] = call.pre[o][k]
       /\ \A i \in DOMAIN body :
            call.active_only =>
              /\ body[i].expiration_date >= call.now
              /\ HasStart(body[i]) => body[i].start_date <= call.now
       /\ \A i, j \in DOMAIN body :
            i < j => body[i].created_at >= body[j].created_at

C3_Witness ==
  /\ call # None
  /\ call.op = "list"
  /\ call.active_only
  /\ Len(call.body) = 1
  /\ \E o \in DOMAIN call.pre :
       HasStart(call.pre[o]) /\ call.pre[o].start_date > call.now
  /\ ~HasStart(call.body[1])

C3_WitnessOrder ==
  /\ call # None
  /\ call.op = "list"
  /\ Len(call.body) = 2
  /\ call.body[1].created_at > call.body[2].created_at
  /\ call.body[1].id = ToString(2)

\* C4 as stated: get, update and delete with a malformed id or an id that
\* matches no record answer 404 (update and delete with a valid credential
\* and an acceptable message).
C4_Applies ==
  /\ call # None
  /\ call.op \in {"get", "update", "delete"}
  /\ call.op # "get" => CredentialOk(call.teacher_username)
  /\ call.message # None => MessageOk(call.message[1])

C4_NotFoundAsStated ==
  (C4_Applies /\ ~Matches(call.pre, call.announcement_id)) =>
    call.status = 404

\* C4 as amended: an id that is well-formed but matches no record answers
\* 404; a malformed id answers 400.
C4_NotFoundOrInvalidId ==
  (C4_Applies /\ ~Matches(call.pre, call.announcement_id)) =>
    /\ Malformed(call.announcement_id) => call.status = 400
    /\ ~Malformed(call.announcement_id) => call.status = 404
    /\ announcements = call.pre

C4_Witness ==
  /\ C4_Applies
  /\ call.op = "delete"
  /\ Malformed(call.announcement_id)
  /\ call.status = 400

C4_WitnessMissing ==
  /\ C4_Applies
  /\ call.op = "update"
  /\ ~Malformed(call.announcement_id)
  /\ ~Matches(call.pre, call.announcement_id)
  /\ call.status = 404

\* C5: a successful update changes only the fields supplied: message,
\* expiration_date and start_date keep their value (or absence) unless
\* supplied; _id, created_at and created_by never change; no other record
\* changes; start_date supplied as "" leaves the record without a start_date
\* field.
C5_Applies == call # None /\ call.op = "update" /\ call.status = 200

\* C5: the record after a successful update is the record before it with
\* exactly the supplied fields replaced (start_date removed when supplied as
\* ""), and every other record is as before.
C5_PartialPatch ==
  C5_Applies =>
    LET o == Target(call.announcement_id)
        old == call.pre[o]
        new == announcements[o]
    IN /\ DOMAIN announcements = DOMAIN call.pre
       /\ \A p \in DOMAIN call.pre \ {o} : announcements[p] = call.pre[p]
       /\ new._id = old._id
       /\ new.created_at = old.created_at
       /\ new.created_by = old.created_by
       /\ new.message =
            IF call.message # None THEN call.message[1] ELSE old.message
       /\ new.expiration_date =
            IF call.expiration_date # None
            THEN Normalized(call.expiration_date[1]) ELSE old.expiration_date
       /\ call.start_date = None =>
            /\ HasStart(new) = HasStart(old)
            /\ HasStart(old) => new.start_date = old.start_date
       /\ call.start_date = Some("") => ~HasStart(new)
       /\ (call.start_date # None /\ call.start_date # Some("")) =>
            /\ HasStart(new)
            /\ new.start_date = Normalized(call.start_date[1])
       /\ DOMAIN new \ {"start_date"} = DOMAIN old \ {"start_date"}
       /\ call.body = Some(serialize_announcement(new))

C5_Witness ==
  /\ C5_Applies
  /\ call.start_date = Some("")
  /\ call.message # None
  /\ call.expiration_date = None
  /\ Cardinality(DOMAIN call.pre) = 2
  /\ HasStart(call.pre[Target(call.announcement_id)])
  /\ call.pre[Target(call.announcement_id)].message # call.message[1]
  /\ ~HasStart(announcements[Target(call.announcement_id)])

\* C6: at every instant of calendar day D, create with a valid credential, a
\* valid message and expiration_date = D is accepted and stores 23:59:59 of D.
C6_Applies ==
  /\ call # None
  /\ call.op = "create"
  /\ CredentialOk(call.teacher_username)
  /\ MessageOk(call.message[1])
  /\ call.start_date = None
  /\ call.expiration_date = Some(ToString(Today(call.now)))

\* C6: such a create answers success and the new record expires at 23:59:59
\* of D.
C6_TodayAccepted ==
  C6_Applies =>
    /\ call.status = 200
    /\ \E o \in DOMAIN announcements \ DOMAIN call.pre :
         announcements[o].expiration_date =
           Normalized(call.expiration_date[1])

\* C7: the calls that reach the expiration check, with everything else
\* acceptable.
C7_Create ==
  /\ call # None
  /\ call.op = "create"
  /\ CredentialOk(call.teacher_username)
  /\ MessageOk(call.message[1])
  /\ Parses(call.expiration_date[1])
  /\ call.start_date = None

C7_Update ==
  /\ call # None
  /\ call.op = "update"
  /\ CredentialOk(call.teacher_username)
  /\ call.message # None => MessageOk(call.message[1])
  /\ Matches(call.pre, call.announcement_id)
  /\ call.expiration_date # None
  /\ Parses(call.expiration_date[1])
  /\ call.start_date = None

C7_WitnessRejected ==
  /\ C7_Create
  /\ Normalized(call.expiration_date[1]) < call.now
  /\ call.status = 400

\* C8: the calls whose only possible fault is the message.
C8_Create ==
  /\ call # None
  /\ call.op = "create"
  /\ CredentialOk(call.teacher_username)
  /\ Parses(call.expiration_date[1])
  /\ Normalized(call.expiration_date[1]) > call.now
  /\ call.start_date = None

C8_Update ==
  /\ call # None
  /\ call.op = "update"
  /\ CredentialOk(call.teacher_username)
  /\ Matches(call.pre, call.announcement_id)
  /\ call.message # None
  /\ call.expiration_date = None
  /\ call.start_date = None

\* C8 as stated: the message is accepted exactly when its trimmed length is
\* between 1 and 500.
C8_TrimmedLengthDecides ==
  (C8_Create \/ C8_Update) =>
    (call.status = 200 <=>
       (TrimmedLength(call.message[1]) >= 1
          /\ TrimmedLength(call.message[1]) <= MAX_MESSAGE_LENGTH))

\* C8 as amended: the message is accepted exactly when its trimmed length is
\* at least 1 and its length before trimming is at most 500, and is answered
\* 400 otherwise; every stored message has trimmed length between 1 and 500.
C8_MessageValidation ==
  /\ (C8_Create \/ C8_Update) =>
       /\ call.status = 200 <=>
            (TrimmedLength(call.message[1]) >= 1
               /\ len(call.message[1]) <= MAX_MESSAGE_LENGTH)
       /\ call.status # 200 => call.status = 400
  /\ \A o \in DOMAIN announcements :
       LET n == TrimmedLength(announcements[o].message)
       IN n >= 1 /\ n <= MAX_MESSAGE_LENGTH

C8_Witness ==
  /\ C8_Update
  /\ call.message = Some(PaddedMsg)
  /\ TrimmedLength(call.message[1]) = MAX_MESSAGE_LENGTH - 1
  /\ call.status = 400

C8_WitnessAccepted ==
  /\ C8_Create
  /\ len(call.message[1]) = MAX_MESSAGE_LENGTH
  /\ call.status = 200

\* C9: when create, update or delete answers 401, 400 or 404 the store is
\* what it was before the call.
C9_ErrorLeavesStore ==
  (call # None /\ call.op \in Mutating /\ call.status \in {400, 401, 404}) =>
    announcements = call.pre

C9_Witness ==
  /\ call # None
  /\ call.op = "update"
  /\ CredentialOk(call.teacher_username)
  /\ call.start_date = Some("")
  /\ call.message = Some(ShortMsg)
  /\ call.expiration_date # None
  /\ Parses(call.expiration_date[1])
  /\ Normalized(call.expiration_date[1]) < call.now
  /\ Matches(call.pre, call.announcement_id)
  /\ HasStart(call.pre[Target(call.announcement_id)])
  /\ call.pre[Target(call.announcement_id)].message # ShortMsg
  /\ call.status = 400

\* C10: for every interleaving of the steps of one update of record r with
\* one delete of r, both with valid credentials: the delete answers success,
\* r is not in the store afterwards (no write of the update re-creates it),
\* and the update answers success only if its final read came before the
\* delete's removal - otherwise it answers an error.
C10_UpdateDeleteRace ==
  /\ Deleted => (del.status = 200 /\ TheOid \notin DOMAIN announcements)
  /\ (upd.pc = "done" /\ upd.status = 200) =>
       (upd.final_read = "before" /\ upd.body # None)
  /\ (upd.pc = "done" /\ upd.final_read = "after") =>
       (upd.status = 400 /\ upd.body = None)
  /\ (upd.pc = "done" /\ upd.final_read = "none") =>
       upd.status \in {400, 404}

C10_Witness ==
  /\ upd.pc = "done"
  /\ Deleted
  /\ upd.plan.status = 200
  /\ upd.plan.unset
  /\ upd.plan.update_fields # <<>>
  /\ upd.wrote_after_delete
  /\ upd.final_read = "after"
  /\ upd.status = 400
  /\ TheOid \notin DOMAIN announcements
====
